---- MODULE Spec2Model ----
(***************************************************************************)
(* The Telegram tutoring bot wired by src/main.py: one TelegramBot         *)
(* (src/telegram_bot/bot.py) whose handlers are dispatched one update at a *)
(* time on the asyncio event loop, and one APScheduler job that runs       *)
(* TelegramBot.scheduled_quiz on the same loop.  An action is the code     *)
(* that runs between two suspension points (awaits) of a coroutine.        *)
(***************************************************************************)
EXTENDS Integers, Sequences, FiniteSets, TLC

\* ------------------------------------------------------------------ bounds
NumChats == 2        \* recipients (chat ids 1..NumChats)
MaxLen == 2          \* longest text a user submits / a stored answer has
MaxFiles == 3        \* distinct file names the audio directory can hold
MaxLines == 5        \* most lines a completion text has
NumThreads == 2      \* threads calling into one WordDatabase
MaxWords == 2        \* most entries of a word list / lines of a word file

Chats == 1..NumChats
NoFile == 0
FileIds == 1..MaxFiles

\* ----------------------------------------------------------------- strings
\* A text is a sequence of characters; " " stands for any whitespace.
Chars == {" ", "a", "A", "b"}

Strings == UNION {[1..n -> Chars] : n \in 0..MaxLen}

\* The text of a text message: Telegram delivers no empty message.
Texts == Strings \ {<<>>}

IsSpace(ch) == ch = " "

\* str.lower() on one character
LowerChar(ch) == IF ch = "A" THEN "a" ELSE ch

\* str.lower()
Lower(s) == [i \in 1..Len(s) |-> LowerChar(s[i])]

RECURSIVE LStrip(_)
LStrip(s) == IF s # <<>> /\ IsSpace(Head(s)) THEN LStrip(Tail(s)) ELSE s

RECURSIVE RStrip(_)
RStrip(s) ==
    IF s # <<>> /\ IsSpace(s[Len(s)]) THEN RStrip(SubSeq(s, 1, Len(s) - 1)) ELSE s

\* str.strip()
Strip(s) == RStrip(LStrip(s))

\* bot.py:719 and bot.py:731: <text>.strip().lower()
Normalize(s) == Lower(Strip(s))

\* ----------------------------------------------------------- python values
\* The value bound to quiz_data: None, a coroutine object, or the dict that
\* OpenAIEngine.generate_quiz_question builds.
NoneVal == [kind |-> "None", english_sentence |-> <<>>, correct_translation |-> <<>>]

CoroutineVal ==
    [kind |-> "coroutine", english_sentence |-> <<>>, correct_translation |-> <<>>]

QuizDict(sentence, answer) ==
    [kind |-> "dict", english_sentence |-> sentence, correct_translation |-> answer]

QuizDicts == {QuizDict(<<"b">>, a) : a \in Strings}

\* Python truthiness of such a value: `not quiz_data` is its negation.
Truthy(v) == v.kind # "None"

\* quiz_data['english_sentence'] raises TypeError unless quiz_data is a dict.
Subscriptable(v) == v.kind = "dict"

\* bot.py:332: `self.ai_engine.generate_quiz_question()` is called without
\* await on an `async def` (openai_engine.py:76): the call only builds a
\* coroutine object; the body (the backend request, the parsing) never runs.
GenerateQuizQuestionCall == CoroutineVal

\* -------------------------------------------------- generate_quiz_question
\* The text of a completion is a sequence of lines (content.split('\n'),
\* openai_engine.py:84); a line is a sequence of tokens, a token being a
\* word ("X", "Y", "P", "Q", "R"), a label word or one space.
LabelEnglish == <<"English:", " ">>

LabelCorrectTranslation == <<"Correct", " ", "Translation:", " ">>

LabelIncorrectTranslation == <<"Incorrect", " ", "Translation:", " ">>

LabelCorrectUkrainian == <<"Correct", " ", "Ukrainian:", " ">>

LabelIncorrectUkrainian == <<"Incorrect", " ", "Ukrainian:", " ">>

StartsWith(s, pat) == Len(s) >= Len(pat) /\ SubSeq(s, 1, Len(pat)) = pat

\* str.replace(pat, ''): every non-overlapping occurrence, leftmost first
RECURSIVE Replace(_, _)
Replace(s, pat) ==
    IF s = <<>> THEN <<>>
    ELSE IF StartsWith(s, pat) THEN Replace(SubSeq(s, Len(pat) + 1, Len(s)), pat)
    ELSE <<Head(s)>> \o Replace(Tail(s), pat)

\* openai_engine.py:41-46: what _create_completion returns when the backend
\* call raises: a one-line apology.
BackendErrorContent == << <<"Sorry,", " ", "error">> >>

\* openai_engine.py:83-104 applied to the completion text; perm is the
\* outcome of random.shuffle(all_options).
GenerateQuizQuestion(content, perm) ==
    IF Len(content) < 5
    THEN NoneVal
    ELSE LET english_sentence == Strip(Replace(content[1], LabelEnglish))
             correct_translation ==
                 Strip(Replace(content[2], LabelCorrectTranslation))
             incorrect_translations ==
                 [i \in 1..3 |->
                     Strip(Replace(content[i + 2], LabelIncorrectTranslation))]
             all_options == <<correct_translation>> \o incorrect_translations
         IN  [kind |-> "dict",
              english_sentence |-> english_sentence,
              correct_translation |-> correct_translation,
              options |-> [i \in 1..4 |-> all_options[perm[i]]]]

\* The outcomes of random.shuffle on a list of four items.
Shuffles == Permutations(1..4)

\* Line i of a completion labelled 'English: ', 'Correct Ukrainian: ' and
\* 'Incorrect Ukrainian: '; past the fifth line, a word.
QuizLine(i) ==
    CASE i = 1 -> LabelEnglish \o <<"X">>
      [] i = 2 -> LabelCorrectUkrainian \o <<"Y">>
      [] i = 3 -> LabelIncorrectUkrainian \o <<"P">>
      [] i = 4 -> LabelIncorrectUkrainian \o <<"Q">>
      [] i = 5 -> LabelIncorrectUkrainian \o <<"R">>
      [] OTHER -> <<"X">>

\* The five lines 'English: X', 'Correct Ukrainian: Y' and 'Incorrect
\* Ukrainian: P / Q / R'.
UkrainianContent == [i \in 1..5 |-> QuizLine(i)]

\* A completion in the labelling generate_quiz_question strips.
WellFormedContent ==
    <<LabelEnglish \o <<"X">>, LabelCorrectTranslation \o <<"Y">>,
      LabelIncorrectTranslation \o <<"P">>, LabelIncorrectTranslation \o <<"P">>,
      LabelIncorrectTranslation \o <<"P">>>>

\* The completion texts of the model: the first n lines (n up to MaxLines)
\* of the labelled completion with any of them blank, the completion above,
\* and the apology of a failed backend call.
Contents ==
    {[i \in 1..n |-> IF i \in blank THEN <<>> ELSE QuizLine(i)] :
        n \in 1..MaxLines, blank \in SUBSET (1..MaxLines)}
        \cup {BackendErrorContent, WellFormedContent}

\* One sentence line followed by blank lines.
PaddedContent == <<LabelEnglish \o <<"X">>, <<>>, <<>>, <<>>, <<>>>>

\* The completions the whole-program specification draws from.
QuizContents == {BackendErrorContent, WellFormedContent, PaddedContent}

\* --------------------------------------------------------------- variables
VARIABLES
    subscribed_users,   \* bot_data['subscribed_users']: a list of chat ids
    scheduled_quizzes,  \* bot_data['scheduled_quizzes']: chat id -> quiz_data
    user_data,          \* context.user_data of each user: quiz_data, in_speech_practice
    files,              \* names of the files in AudioSettings.AUDIOS_DIR
    tick,               \* the running / last run of scheduled_quiz
    quizRuns,           \* per recipient: runs of the quiz loop body since its last answer
    h,                  \* the handler invocation being dispatched
    db                  \* one WordDatabase: its list, file, lock and calling threads

vars == <<subscribed_users, scheduled_quizzes, user_data, files, tick, quizRuns, h, db>>

Range(s) == {s[i] : i \in 1..Len(s)}

Count(s, x) == Cardinality({i \in 1..Len(s) : s[i] = x})

\* list.remove(x): drops the first occurrence
RemoveFirst(s, x) ==
    LET i == CHOOSE k \in 1..Len(s) : s[k] = x /\ \A j \in 1..(k - 1) : s[j] # x
    IN  SubSeq(s, 1, i - 1) \o SubSeq(s, i + 1, Len(s))

\* A user_data dict without the keys 'quiz_data', 'in_speech_practice' and
\* 'target_language': .get('quiz_data') is None,
\* .get('in_speech_practice', False) is False and
\* .get('target_language', 'ukrainian') is 'ukrainian' (bot.py:114).
EmptyUserData ==
    [quiz_data |-> NoneVal, in_speech_practice |-> FALSE, target_language |-> "ukrainian"]

IdleTick ==
    [pc |-> "idle", idx |-> 1, start |-> <<>>, attempted |-> <<>>,
     sent |-> <<>>, errors |-> <<>>, extFailed |-> FALSE]

Threads == 1..NumThreads
NoThread == 0

\* A thread that is in no call of the WordDatabase.
IdleThread ==
    [pc |-> "idle", op |-> "none", word |-> <<>>, ret |-> "none",
     present |-> FALSE, wrote |-> FALSE]

\* word_database.py:28: [line.strip() for line in file if line.strip()]
RECURSIVE LoadWords(_)
LoadWords(lines) ==
    IF lines = <<>> THEN <<>>
    ELSE IF Strip(Head(lines)) = <<>> THEN LoadWords(Tail(lines))
    ELSE <<Strip(Head(lines))>> \o LoadWords(Tail(lines))

\* word_database.py:17-22: the object after construction over a word file
\* with the given lines (no file: no lines).
WordDatabase(lines) ==
    [words |-> LoadWords(lines), file |-> lines, lock |-> NoThread,
     th |-> [t \in Threads |-> IdleThread]]

IdleH ==
    [name |-> "none", pc |-> "idle", chat |-> 0, text |-> <<>>,
     quiz_data |-> NoneVal, sent |-> <<>>, raised |-> FALSE,
     msg |-> "none", ogg |-> NoFile, out |-> NoFile, mp3 |-> NoFile,
     resp |-> NoFile, failedAt |-> "none", delFailed |-> FALSE, before |-> {},
     seenRuns |-> 0, content |-> <<>>, ret |-> "none",
     calls |-> <<>>, created |-> {}, unlinks |-> <<>>]

\* The state after TelegramBot.__init__ and main(): bot_data and user_data
\* are empty, no update is being handled, the scheduler has not fired.
Init ==
    /\ subscribed_users = <<>>
    /\ scheduled_quizzes = [c \in Chats |-> NoneVal]
    /\ user_data = [c \in Chats |-> EmptyUserData]
    /\ files = {}
    /\ tick = IdleTick
    /\ quizRuns = [c \in Chats |-> 0]
    /\ h = IdleH
    /\ db = WordDatabase(<<>>)

\* The event loop is free to start a handler: updates are processed one at
\* a time (the Application is built without concurrent updates), and
\* scheduled_quiz never yields once it has started.
CanDispatch == h.pc = "idle" /\ tick.pc # "loop"

\* A suspended handler is resumed only while scheduled_quiz is not running.
CanResume(name, pc) == h.name = name /\ h.pc = pc /\ tick.pc # "loop"

Begin(name, c, pc) ==
    [IdleH EXCEPT !.name = name, !.chat = c, !.pc = pc, !.before = files]

\* await context.bot.send_message / send_voice completing: delivered, or the
\* transport raised.
Delivered(rec, ok, kind) == IF ok THEN [rec EXCEPT !.sent = Append(@, kind)] ELSE rec

\* The handler begins the external calls cs, in this order, in the step
\* being taken.
Started(rec, cs) == [rec EXCEPT !.calls = @ \o cs]

\* --------------------------------------------------------- scheduled_quiz
ScheduledQuizStart ==
    /\ tick.pc \in {"idle", "done"}
    /\ tick' = [IdleTick EXCEPT !.pc = "loop", !.start = subscribed_users]
    /\ UNCHANGED <<subscribed_users, scheduled_quizzes, user_data, files, quizRuns, h, db>>

ScheduledQuizExceptAborts(t, chat_id) ==
    [t EXCEPT !.errors = Append(@, chat_id), !.idx = Len(subscribed_users) + 1]

\* bot.py:361-362: the except inside the loop logs and the for goes on.
ScheduledQuizExcept(t, chat_id) ==
    [t EXCEPT !.errors = Append(@, chat_id), !.idx = @ + 1]

\* quizRuns counts none, one, or two and more.
Bump(runs, chat_id) ==
    [runs EXCEPT ![chat_id] = IF @ = 0 THEN 1 ELSE 2]

\* One pass of the loop body, bot.py:329-362, for subscribed_users[idx].
ScheduledQuizIterate ==
    /\ tick.pc = "loop"
    /\ tick.idx <= Len(subscribed_users)
    /\ LET chat_id == subscribed_users[tick.idx]
           t0 == [tick EXCEPT !.attempted = Append(@, chat_id)]
           quiz_data == GenerateQuizQuestionCall
       IN  IF ~Truthy(quiz_data)
           THEN \* bot.py:334-339: apology, continue
                \E ok \in BOOLEAN :
                    /\ tick' = IF ok
                               THEN [t0 EXCEPT !.sent = Append(@, <<chat_id, "apology">>),
                                               !.idx = @ + 1]
                               ELSE ScheduledQuizExcept(
                                        [t0 EXCEPT !.extFailed = TRUE], chat_id)
                    /\ UNCHANGED <<scheduled_quizzes, files, quizRuns>>
           ELSE IF ~Subscriptable(quiz_data)
           THEN \* bot.py:341: the argument quiz_data['english_sentence'] raises
                \* TypeError before convert_text_to_speech is called
                /\ tick' = ScheduledQuizExcept(t0, chat_id)
                /\ quizRuns' = Bump(quizRuns, chat_id)
                /\ UNCHANGED <<scheduled_quizzes, files>>
           ELSE \* bot.py:341-359
                \E tts \in {"ok", "fail", "partial"}, voice, remove, prompt \in BOOLEAN,
                   f \in FileIds \ files :
                    LET made == IF tts = "fail" THEN files ELSE files \cup {f}
                        t1 == IF tts = "ok" /\ voice
                              THEN [t0 EXCEPT !.sent = Append(@, <<chat_id, "voice">>)]
                              ELSE t0
                        t2 == IF tts = "ok" /\ voice /\ remove /\ prompt
                              THEN [t1 EXCEPT !.sent = Append(@, <<chat_id, "prompt">>)]
                              ELSE t1
                        allOk == tts = "ok" /\ voice /\ remove /\ prompt
                        extOk == tts = "ok" /\ voice /\ prompt
                    IN  /\ files' = IF tts = "ok" /\ voice /\ remove
                                    THEN made \ {f} ELSE made
                        /\ scheduled_quizzes' =
                               IF allOk
                               THEN [scheduled_quizzes EXCEPT ![chat_id] = quiz_data]
                               ELSE scheduled_quizzes
                        /\ tick' = IF allOk
                                   THEN [t2 EXCEPT !.idx = @ + 1]
                                   ELSE ScheduledQuizExcept(
                                            [t2 EXCEPT !.extFailed = @ \/ ~extOk], chat_id)
                        /\ quizRuns' = IF extOk THEN Bump(quizRuns, chat_id) ELSE quizRuns
    /\ UNCHANGED <<subscribed_users, user_data, h, db>>

\* The for loop is exhausted: bot.py:364-365.
ScheduledQuizEnd ==
    /\ tick.pc = "loop"
    /\ tick.idx > Len(subscribed_users)
    /\ tick' = [tick EXCEPT !.pc = "done"]
    /\ UNCHANGED <<subscribed_users, scheduled_quizzes, user_data, files, quizRuns, h, db>>

\* ------------------------------------------- subscribe / unsubscribe
SubscribeQuizAppends(c) ==
    /\ CanDispatch
    /\ subscribed_users' = Append(subscribed_users, c)
    /\ h' = [Begin("subscribe_quiz", c, "reply") EXCEPT !.msg = "subscribed"]
    /\ UNCHANGED <<scheduled_quizzes, user_data, files, tick, quizRuns, db>>

\* bot.py:367-390, up to the await of the reply.
SubscribeQuiz(c) ==
    /\ CanDispatch
    /\ IF c \notin Range(subscribed_users)
       THEN /\ subscribed_users' = Append(subscribed_users, c)
            /\ h' = [Begin("subscribe_quiz", c, "reply") EXCEPT !.msg = "subscribed"]
       ELSE /\ subscribed_users' = subscribed_users
            /\ h' = [Begin("subscribe_quiz", c, "reply") EXCEPT !.msg = "already"]
    /\ UNCHANGED <<scheduled_quizzes, user_data, files, tick, quizRuns, db>>

UnsubscribeQuizPops(c) ==
    /\ CanDispatch
    /\ subscribed_users' =
           IF c \in Range(subscribed_users) THEN RemoveFirst(subscribed_users, c)
           ELSE SubSeq(subscribed_users, 1, Len(subscribed_users) - 1)
    /\ h' = [Begin("unsubscribe_quiz", c, "reply") EXCEPT
                 !.msg = IF c \in Range(subscribed_users)
                         THEN "unsubscribed" ELSE "not_subscribed"]
    /\ UNCHANGED <<scheduled_quizzes, user_data, files, tick, quizRuns, db>>

\* bot.py:392-415, up to the await of the reply.
UnsubscribeQuiz(c) ==
    /\ CanDispatch
    /\ IF c \in Range(subscribed_users)
       THEN /\ subscribed_users' = RemoveFirst(subscribed_users, c)
            /\ h' = [Begin("unsubscribe_quiz", c, "reply") EXCEPT !.msg = "unsubscribed"]
       ELSE /\ subscribed_users' = subscribed_users
            /\ h' = [Begin("unsubscribe_quiz", c, "reply") EXCEPT !.msg = "not_subscribed"]
    /\ UNCHANGED <<scheduled_quizzes, user_data, files, tick, quizRuns, db>>

\* The reply of subscribe_quiz / unsubscribe_quiz is delivered or the
\* transport raises; either way the handler is over.
SubscriptionReply ==
    /\ \/ CanResume("subscribe_quiz", "reply")
       \/ CanResume("unsubscribe_quiz", "reply")
    /\ \E ok \in BOOLEAN :
           h' = [Delivered(h, ok, h.msg) EXCEPT !.pc = "done", !.raised = ~ok]
    /\ UNCHANGED <<subscribed_users, scheduled_quizzes, user_data, files, tick, quizRuns, db>>

\* ------------------------------------------------------------ check_answer
AnswerMatchesCaseSensitive(text, quiz_data) ==
    Strip(text) = Strip(quiz_data.correct_translation)

\* bot.py:719, 731-733: user_answer == correct_translation, both .strip().lower()
AnswerMatches(text, quiz_data) ==
    Normalize(text) = Normalize(quiz_data.correct_translation)

\* bot.py:707-743, up to the await of the reply: the plain-text handler
\* registered at bot.py:100, for the text of a non-command message.
CheckAnswer(c, text) ==
    /\ CanDispatch
    /\ LET quiz_data == user_data[c].quiz_data
           b == [Begin("check_answer", c, "reply") EXCEPT
                     !.quiz_data = quiz_data, !.seenRuns = quizRuns[c]]
       IN  h' = IF ~Truthy(quiz_data)
                THEN \* user_answer is not read on this branch
                     [b EXCEPT !.msg = "no_session"]
                ELSE IF AnswerMatches(text, quiz_data)
                THEN [b EXCEPT !.msg = "correct", !.text = text]
                ELSE [b EXCEPT !.msg = "incorrect", !.text = text]
    /\ quizRuns' = [quizRuns EXCEPT ![c] = 0]
    /\ UNCHANGED <<subscribed_users, scheduled_quizzes, user_data, files, tick, db>>

PopQuizDataClears(ud, rec, ok) == [ud EXCEPT ![rec.chat] = EmptyUserData]

\* bot.py:729 and 745-746: the no-session branch returns without touching
\* user_data; context.user_data.pop('quiz_data', None) is reached only when
\* the feedback send_message at bot.py:740 returned.
PopQuizData(ud, rec, ok) ==
    IF rec.msg # "no_session" /\ ok
    THEN [ud EXCEPT ![rec.chat].quiz_data = NoneVal]
    ELSE ud

\* The send_message awaited at bot.py:725 (no quiz data) or at bot.py:740
\* (feedback) completes or raises.
CheckAnswerReply ==
    /\ CanResume("check_answer", "reply")
    /\ \E ok \in BOOLEAN :
        /\ h' = [Delivered(h, ok, h.msg) EXCEPT !.pc = "done", !.raised = ~ok]
        /\ user_data' = PopQuizData(user_data, h, ok)
    /\ UNCHANGED <<subscribed_users, scheduled_quizzes, files, tick, quizRuns, db>>

\* ------------------------------------------------------------ audio files
\* SpeechEngine.generate_uuid: a name no file has and no path variable of
\* the running handler holds.
Held(rec) == {rec.ogg, rec.out, rec.mp3, rec.resp} \ {NoFile}

HasFresh(fs, rec) == FileIds \ (fs \cup Held(rec)) # {}

Fresh(fs, rec) ==
    CHOOSE f \in FileIds \ (fs \cup Held(rec)) :
        \A g \in FileIds \ (fs \cup Held(rec)) : f <= g

\* How a call that writes its output file ends: the file is complete, the
\* call raised before creating it, or it raised after creating it
\* (download_voice_as_ogg provides for the last case at speech_engine.py:91).
WriteOutcomes == {"ok", "fail", "partial"}

Written(fs, f, outcome) == IF outcome = "fail" THEN fs ELSE fs \cup {f}

\* `if path.exists(): try: unlink() except: log` (speech_engine.py:91-95,
\* 113-117; bot.py:497-502); ok is whether the unlink succeeds.
UnlinkIfExists(fs, f, ok) == IF f # NoFile /\ f \in fs /\ ok THEN fs \ {f} ELSE fs

UnlinkFailed(fs, f, ok) == f # NoFile /\ f \in fs /\ ~ok

\* bot.py:495-502: the finally of handle_voice
HandleVoiceFinally(fs, rec, ok1, ok2) ==
    UnlinkIfExists(UnlinkIfExists(fs, rec.mp3, ok1), rec.resp, ok2)

HandleVoiceFinallyFailed(fs, rec, ok1, ok2) ==
    \/ UnlinkFailed(fs, rec.mp3, ok1)
    \/ UnlinkFailed(UnlinkIfExists(fs, rec.mp3, ok1), rec.resp, ok2)

\* ------------------------------------------------------------ handle_voice
\* The file f was created by a call of the handler that ended with outcome.
Created(rec, f, outcome) ==
    IF outcome = "fail" THEN rec ELSE [rec EXCEPT !.created = @ \cup {f}]

\* The guarded unlink of f, in a directory holding fs, removed the file.
Unlinked(rec, fs, f, ok) ==
    IF f # NoFile /\ f \in fs /\ ok THEN [rec EXCEPT !.unlinks = Append(@, f)] ELSE rec

FailedSilently(rec, stage) == [rec EXCEPT !.pc = "done", !.failedAt = stage]

\* bot.py:489-494: an exception of the try reaches the except clause, which
\* logs it and awaits the send of the apology.
Failed(rec, stage) ==
    Started([rec EXCEPT !.pc = "apology", !.failedAt = stage], <<"apology">>)

SynthesizedUnchecked(rec, outcome) ==
    Started([rec EXCEPT !.pc = "send_text", !.resp = rec.out, !.out = NoFile],
            <<"send_message">>)

\* speech_engine.py:54-58 and bot.py:482-484: tts.save returned and
\* response_audio_filepath is bound, then the text reply is being sent; or
\* tts.save raised.
Synthesized(rec, outcome) ==
    IF outcome = "ok"
    THEN Started([rec EXCEPT !.pc = "send_text", !.resp = rec.out, !.out = NoFile],
                 <<"send_message">>)
    ELSE Failed(rec, "synthesize")

\* bot.py:452-466 and speech_engine.py:82-84: up to `await voice.get_file()`
HandleVoice(c) ==
    /\ CanDispatch
    /\ HasFresh(files, IdleH)
    /\ h' = Started([Begin("handle_voice", c, "get_file") EXCEPT
                         !.ogg = Fresh(files, IdleH)], <<"download">>)
    /\ UNCHANGED <<subscribed_users, scheduled_quizzes, user_data, files, tick, quizRuns, db>>

\* speech_engine.py:84: get_file returns or raises (no file exists yet)
VoiceGetFile ==
    /\ CanResume("handle_voice", "get_file")
    /\ \E ok \in BOOLEAN :
        h' = IF ok THEN [h EXCEPT !.pc = "download"]
             ELSE Failed(h, "download")
    /\ UNCHANGED <<subscribed_users, scheduled_quizzes, user_data, files, tick, quizRuns, db>>

\* speech_engine.py:85-95: download_to_drive; on success the context yields
\* and convert_ogg_to_mp3 runs up to its run_in_executor
\* (speech_engine.py:99-103); on failure the finally of the context runs.
VoiceDownload ==
    /\ CanResume("handle_voice", "download")
    /\ \E outcome \in WriteOutcomes, del \in BOOLEAN :
        LET fs == Written(files, h.ogg, outcome)
            h0 == Created(h, h.ogg, outcome)
        IN  IF outcome = "ok"
            THEN /\ HasFresh(fs, h)
                 /\ files' = fs
                 /\ h' = Started([h0 EXCEPT !.pc = "transcode", !.out = Fresh(fs, h)],
                                 <<"transcode">>)
            ELSE /\ files' = UnlinkIfExists(fs, h.ogg, del)
                 /\ h' = Unlinked(
                             [Failed(h0, "download") EXCEPT
                                  !.delFailed = @ \/ UnlinkFailed(fs, h.ogg, del)],
                             fs, h.ogg, del)
    /\ UNCHANGED <<subscribed_users, scheduled_quizzes, user_data, tick, quizRuns, db>>

\* speech_engine.py:103-117: the export ends; the finally of
\* convert_ogg_to_mp3 unlinks the OGG file.  On success handle_voice binds
\* mp3_filepath (bot.py:467) and convert_speech_to_text starts
\* (speech_engine.py:63); on failure the context's finally runs too
\* (speech_engine.py:90-95).
VoiceTranscode ==
    /\ CanResume("handle_voice", "transcode")
    /\ \E outcome \in WriteOutcomes, del1, del2 \in BOOLEAN :
        LET fs0 == Written(files, h.out, outcome)
            fs1 == UnlinkIfExists(fs0, h.ogg, del1)
            fs2 == UnlinkIfExists(fs1, h.ogg, del2)
            h0 == Unlinked(Created(h, h.out, outcome), fs0, h.ogg, del1)
        IN  IF outcome = "ok"
            THEN /\ files' = fs1
                 /\ h' = Started(
                             [h0 EXCEPT !.pc = "transcribe", !.mp3 = h.out, !.out = NoFile,
                                  !.delFailed = @ \/ UnlinkFailed(fs0, h.ogg, del1)],
                             <<"transcribe">>)
            ELSE /\ files' = fs2
                 /\ h' = Unlinked(
                             [Failed(h0, "transcode") EXCEPT
                                  !.delFailed = @ \/ UnlinkFailed(fs1, h.ogg, del2)],
                             fs1, h.ogg, del2)
    /\ UNCHANGED <<subscribed_users, scheduled_quizzes, user_data, tick, quizRuns, db>>

\* speech_engine.py:63-77: the file read and the transcription end; the
\* context exits (speech_engine.py:90-95).  On success generate_response
\* runs without suspending (openai_engine.py:32-46 calls the blocking client
\* inline and turns every backend error into a reply text) and
\* convert_text_to_speech runs up to its run_in_executor
\* (speech_engine.py:50-54).
VoiceTranscribe ==
    /\ CanResume("handle_voice", "transcribe")
    /\ \E ok, del \in BOOLEAN :
        LET h0 == Unlinked([h EXCEPT !.delFailed = @ \/ UnlinkFailed(files, h.ogg, del)],
                           files, h.ogg, del)
        IN  /\ files' = UnlinkIfExists(files, h.ogg, del)
            /\ IF ok
               THEN /\ HasFresh(files, h)
                    /\ h' = Started([h0 EXCEPT !.pc = "synthesize",
                                         !.out = Fresh(files, h)],
                                    <<"generate", "synthesize">>)
               ELSE h' = Failed(h0, "transcribe")
    /\ UNCHANGED <<subscribed_users, scheduled_quizzes, user_data, tick, quizRuns, db>>

\* speech_engine.py:54-58 and bot.py:482-484: tts.save ends.
VoiceSynthesize ==
    /\ CanResume("handle_voice", "synthesize")
    /\ \E outcome \in WriteOutcomes :
        /\ files' = Written(files, h.out, outcome)
        /\ h' = Synthesized(Created(h, h.out, outcome), outcome)
    /\ UNCHANGED <<subscribed_users, scheduled_quizzes, user_data, tick, quizRuns, db>>

\* bot.py:484-486: send_message returns or raises; then the file is read.
VoiceSendText ==
    /\ CanResume("handle_voice", "send_text")
    /\ \E ok \in BOOLEAN :
        h' = IF ok
             THEN Started([Delivered(h, TRUE, "response") EXCEPT !.pc = "send_voice"],
                          <<"send_voice">>)
             ELSE Failed(h, "send_message")
    /\ UNCHANGED <<subscribed_users, scheduled_quizzes, user_data, files, tick, quizRuns, db>>

\* The unlinks of the finally of handle_voice, bot.py:495-502.
FinallyUnlinked(rec, fs, ok1, ok2) ==
    Unlinked(Unlinked(rec, fs, rec.mp3, ok1),
             UnlinkIfExists(fs, rec.mp3, ok1), rec.resp, ok2)

\* bot.py:485-487, 495-502: the read and send_voice end; on success the try
\* is over and the finally runs.
VoiceSendVoice ==
    /\ CanResume("handle_voice", "send_voice")
    /\ \E ok, del1, del2 \in BOOLEAN :
        IF ok
        THEN /\ files' = HandleVoiceFinally(files, h, del1, del2)
             /\ h' = FinallyUnlinked(
                         [Delivered(h, TRUE, "voice") EXCEPT !.pc = "done",
                              !.delFailed =
                                  @ \/ HandleVoiceFinallyFailed(files, h, del1, del2)],
                         files, del1, del2)
        ELSE /\ files' = files
             /\ h' = Failed(h, "send_voice")
    /\ UNCHANGED <<subscribed_users, scheduled_quizzes, user_data, tick, quizRuns, db>>

\* bot.py:489-502: the apology of the except clause is delivered or raises;
\* the finally runs either way.
VoiceApology ==
    /\ CanResume("handle_voice", "apology")
    /\ \E ok, del1, del2 \in BOOLEAN :
        /\ files' = HandleVoiceFinally(files, h, del1, del2)
        /\ h' = FinallyUnlinked(
                    [Delivered(h, ok, "apology") EXCEPT !.pc = "done", !.raised = ~ok,
                         !.delFailed =
                             @ \/ HandleVoiceFinallyFailed(files, h, del1, del2)],
                    files, del1, del2)
    /\ UNCHANGED <<subscribed_users, scheduled_quizzes, user_data, tick, quizRuns, db>>

\* --------------------------------------------------- start_speech_practice
\* bot.py:436-449, up to the await of the welcome message
StartSpeechPractice(c) ==
    /\ CanDispatch
    /\ h' = [Begin("start_speech_practice", c, "reply") EXCEPT !.msg = "welcome"]
    /\ UNCHANGED <<subscribed_users, scheduled_quizzes, user_data, files, tick, quizRuns, db>>

\* bot.py:449-450: the flag is set once the welcome message was sent
SpeechPracticeReply ==
    /\ CanResume("start_speech_practice", "reply")
    /\ \E ok \in BOOLEAN :
        /\ h' = [Delivered(h, ok, h.msg) EXCEPT !.pc = "done", !.raised = ~ok]
        /\ user_data' =
               IF ok THEN [user_data EXCEPT ![h.chat].in_speech_practice = TRUE]
               ELSE user_data
    /\ UNCHANGED <<subscribed_users, scheduled_quizzes, files, tick, quizRuns, db>>

\* ----------------------------------- meaning, send_text_and_voice_response
\* bot.py:504-525, up to the first awaited send_message: the usage hint when
\* no word follows the command, the notice otherwise.
Meaning(c, hasWord) ==
    /\ CanDispatch
    /\ h' = Started(IF hasWord
                     THEN [Begin("meaning", c, "notice") EXCEPT !.msg = "notice"]
                     ELSE [Begin("meaning", c, "usage") EXCEPT !.msg = "usage"],
                     <<"send_message">>)
    /\ UNCHANGED <<subscribed_users, scheduled_quizzes, user_data, files, tick, quizRuns, db>>

\* bot.py:516-520: the usage hint is delivered or raises; the handler ends.
MeaningUsage ==
    /\ CanResume("meaning", "usage")
    /\ \E ok \in BOOLEAN :
        h' = [Delivered(h, ok, h.msg) EXCEPT !.pc = "done", !.raised = ~ok]
    /\ UNCHANGED <<subscribed_users, scheduled_quizzes, user_data, files, tick, quizRuns, db>>

\* bot.py:522-535 and 252-253: the notice is delivered (a raise leaves the
\* handler, which has no try); generate_response runs without suspending;
\* send_text_and_voice_response awaits the send of the text.
MeaningNotice ==
    /\ CanResume("meaning", "notice")
    /\ \E ok \in BOOLEAN :
        h' = IF ok
             THEN Started([Delivered(h, TRUE, h.msg) EXCEPT !.pc = "stv_text"],
                          <<"generate", "send_message">>)
             ELSE [h EXCEPT !.pc = "done", !.raised = TRUE]
    /\ UNCHANGED <<subscribed_users, scheduled_quizzes, user_data, files, tick, quizRuns, db>>

\* bot.py:262-264: an exception of the try of send_text_and_voice_response
\* reaches its except clause, which awaits the send of the apology.
StvFailed(rec, stage) ==
    Started([rec EXCEPT !.pc = "stv_apology", !.failedAt = stage], <<"apology">>)

\* bot.py:253-254 and speech_engine.py:50-54
StvSendText ==
    /\ CanResume("meaning", "stv_text")
    /\ \E ok \in BOOLEAN :
        IF ok
        THEN /\ HasFresh(files, h)
             /\ h' = Started([Delivered(h, TRUE, "response") EXCEPT
                                  !.pc = "stv_synthesize", !.out = Fresh(files, h)],
                             <<"synthesize">>)
        ELSE h' = StvFailed(h, "send_message")
    /\ UNCHANGED <<subscribed_users, scheduled_quizzes, user_data, files, tick, quizRuns, db>>

\* speech_engine.py:54-58 and bot.py:254-257
StvSynthesize ==
    /\ CanResume("meaning", "stv_synthesize")
    /\ \E outcome \in WriteOutcomes :
        /\ files' = Written(files, h.out, outcome)
        /\ h' = IF outcome = "ok"
                THEN Started([h EXCEPT !.pc = "stv_voice", !.resp = h.out, !.out = NoFile],
                             <<"send_voice">>)
                ELSE StvFailed(h, "synthesize")
    /\ UNCHANGED <<subscribed_users, scheduled_quizzes, user_data, tick, quizRuns, db>>

\* bot.py:259-261: os.remove(audio_filepath) follows send_voice inside the
\* try, so it runs only when send_voice returned.
StvRelease(fs, rec, sent, del) == IF sent /\ del THEN fs \ {rec.resp} ELSE fs

\* bot.py:256-267: the read and send_voice end, then os.remove; a raise of
\* any of them enters the except clause.
StvSendVoice ==
    /\ CanResume("meaning", "stv_voice")
    /\ \E ok, del \in BOOLEAN :
        /\ files' = StvRelease(files, h, ok, del)
        /\ h' = IF ok /\ del
                THEN [Delivered(h, TRUE, "voice") EXCEPT !.pc = "done"]
                ELSE IF ok
                THEN Started([Delivered(h, TRUE, "voice") EXCEPT
                                  !.pc = "stv_apology", !.delFailed = TRUE],
                             <<"apology">>)
                ELSE StvFailed(h, "send_voice")
    /\ UNCHANGED <<subscribed_users, scheduled_quizzes, user_data, tick, quizRuns, db>>

\* bot.py:262-267: the apology of the except clause is delivered or raises.
StvApology ==
    /\ CanResume("meaning", "stv_apology")
    /\ \E ok \in BOOLEAN :
        h' = [Delivered(h, ok, "apology") EXCEPT !.pc = "done", !.raised = ~ok]
    /\ UNCHANGED <<subscribed_users, scheduled_quizzes, user_data, files, tick, quizRuns, db>>

\* -------------------------------------------------------------------- quiz
\* bot.py:686-705, the CommandHandler registered at bot.py:89-97 (it precedes
\* the ConversationHandler of bot.py:102-111 in the same group, so the
\* conversation is never entered).  generate_quiz_question runs without
\* suspending (openai_engine.py:35 calls the blocking client inline).  With
\* quiz data the method ends after line 705 without a statement: it sends
\* nothing, stores nothing and returns None.
Quiz(c, content) ==
    /\ CanDispatch
    /\ \E perm \in Shuffles :
        LET quiz_data == GenerateQuizQuestion(content, perm)
            b == [Begin("quiz", c, "reply") EXCEPT
                      !.content = content, !.quiz_data = quiz_data]
        IN  h' = IF ~Truthy(quiz_data)
                 THEN Started([b EXCEPT !.msg = "apology"], <<"generate", "send_message">>)
                 ELSE Started([b EXCEPT !.pc = "done", !.ret = "None"], <<"generate">>)
    /\ UNCHANGED <<subscribed_users, scheduled_quizzes, user_data, files, tick, quizRuns, db>>

\* bot.py:701-705: the apology is delivered and the handler returns
\* ConversationHandler.END, or the transport raises.
QuizReply ==
    /\ CanResume("quiz", "reply")
    /\ \E ok \in BOOLEAN :
        h' = [Delivered(h, ok, h.msg) EXCEPT
                  !.pc = "done", !.raised = ~ok, !.ret = IF ok THEN "END" ELSE "none"]
    /\ UNCHANGED <<subscribed_users, scheduled_quizzes, user_data, files, tick, quizRuns, db>>

\* ------------------------------------------------------------- cancel_quiz
\* bot.py:302-317, up to the await of the message.
CancelQuiz(c) ==
    /\ CanDispatch
    /\ h' = [Begin("cancel_quiz", c, "reply") EXCEPT !.msg = "cancelled"]
    /\ UNCHANGED <<subscribed_users, scheduled_quizzes, user_data, files, tick, quizRuns, db>>

\* bot.py:314-318: the message is delivered and the handler returns
\* ConversationHandler.END, or the transport raises.
CancelQuizReply ==
    /\ CanResume("cancel_quiz", "reply")
    /\ \E ok \in BOOLEAN :
        h' = [Delivered(h, ok, h.msg) EXCEPT
                  !.pc = "done", !.raised = ~ok, !.ret = IF ok THEN "END" ELSE "none"]
    /\ UNCHANGED <<subscribed_users, scheduled_quizzes, user_data, files, tick, quizRuns, db>>

\* ------------------------------------------------------------ set_language
Languages == {"ukrainian", "english", "german"}

\* bot.py:116-141, up to the awaited send_message: the usage hint without an
\* argument, the rejection of a language other than 'english' and 'german',
\* else the key is stored and the confirmation is being sent.
SetLanguage(c, hasArg, language) ==
    /\ CanDispatch
    /\ h' = Started([Begin("set_language", c, "reply") EXCEPT
                         !.msg = IF ~hasArg THEN "usage"
                                 ELSE IF language \notin {"english", "german"}
                                 THEN "invalid_language"
                                 ELSE "language_set"],
                    <<"send_message">>)
    /\ user_data' =
           IF hasArg /\ language \in {"english", "german"}
           THEN [user_data EXCEPT ![c].target_language = language]
           ELSE user_data
    /\ UNCHANGED <<subscribed_users, scheduled_quizzes, files, tick, quizRuns, db>>

\* bot.py:123-141: the message is delivered or the transport raises.
SetLanguageReply ==
    /\ CanResume("set_language", "reply")
    /\ \E ok \in BOOLEAN :
        h' = [Delivered(h, ok, h.msg) EXCEPT !.pc = "done", !.raised = ~ok]
    /\ UNCHANGED <<subscribed_users, scheduled_quizzes, user_data, files, tick, quizRuns, db>>

\* -------------------------------------------------------------- send_vocab
\* bot.py:40-43: the keys of the word_database dict.
WordDatabaseLanguages == {"english", "german"}

\* bot.py:203-241 has no try: an exception of a step leaves the handler.
VocabRaised(rec, stage) ==
    [rec EXCEPT !.pc = "done", !.raised = TRUE, !.failedAt = stage]

\* bot.py:207-235, up to the first await that suspends: reply_text when
\* word_database.get(language) is None; otherwise both generate_response
\* calls run without suspending (openai_engine.py:32-46) and the text is
\* being sent.
SendVocab(c) ==
    /\ CanDispatch
    /\ h' = IF user_data[c].target_language \notin WordDatabaseLanguages
            THEN Started([Begin("send_vocab", c, "reply") EXCEPT !.msg = "no_word"],
                         <<"send_message">>)
            ELSE Started(Begin("send_vocab", c, "vocab_text"),
                         <<"generate", "generate", "send_message">>)
    /\ UNCHANGED <<subscribed_users, scheduled_quizzes, user_data, files, tick, quizRuns, db>>

\* bot.py:213-214: the reply is delivered or the transport raises.
VocabReply ==
    /\ CanResume("send_vocab", "reply")
    /\ \E ok \in BOOLEAN :
        h' = [Delivered(h, ok, h.msg) EXCEPT !.pc = "done", !.raised = ~ok]
    /\ UNCHANGED <<subscribed_users, scheduled_quizzes, user_data, files, tick, quizRuns, db>>

\* bot.py:235-237 and speech_engine.py:50-54: send_message ends; then
\* convert_text_to_speech runs up to its run_in_executor.
VocabSendText ==
    /\ CanResume("send_vocab", "vocab_text")
    /\ \E ok \in BOOLEAN :
        IF ok
        THEN /\ HasFresh(files, h)
             /\ h' = Started([Delivered(h, TRUE, "response") EXCEPT
                                  !.pc = "vocab_synthesize", !.out = Fresh(files, h)],
                             <<"synthesize">>)
        ELSE h' = VocabRaised(h, "send_message")
    /\ UNCHANGED <<subscribed_users, scheduled_quizzes, user_data, files, tick, quizRuns, db>>

\* speech_engine.py:54-58 and bot.py:237-240: tts.save ends.
VocabSynthesize ==
    /\ CanResume("send_vocab", "vocab_synthesize")
    /\ \E outcome \in WriteOutcomes :
        /\ files' = Written(files, h.out, outcome)
        /\ h' = IF outcome = "ok"
                THEN Started([h EXCEPT !.pc = "vocab_voice", !.resp = h.out, !.out = NoFile],
                             <<"send_voice">>)
                ELSE VocabRaised(h, "synthesize")
    /\ UNCHANGED <<subscribed_users, scheduled_quizzes, user_data, tick, quizRuns, db>>

\* bot.py:238-241: the read and send_voice end, then os.remove.
VocabSendVoice ==
    /\ CanResume("send_vocab", "vocab_voice")
    /\ \E ok, del \in BOOLEAN :
        /\ files' = StvRelease(files, h, ok, del)
        /\ h' = IF ok /\ del
                THEN [Delivered(h, TRUE, "voice") EXCEPT !.pc = "done"]
                ELSE IF ok
                THEN [Delivered(h, TRUE, "voice") EXCEPT
                          !.pc = "done", !.raised = TRUE, !.delFailed = TRUE]
                ELSE VocabRaised(h, "send_voice")
    /\ UNCHANGED <<subscribed_users, scheduled_quizzes, user_data, tick, quizRuns, db>>

\* ------------------------------------------------------------------- stats
\* bot.py:610-627, up to the first awaited send_message: of the statistics
\* when the psutil calls returned, of the except clause's message when one
\* of them raised.
Stats(c) ==
    /\ CanDispatch
    /\ \E ok \in BOOLEAN :
        h' = IF ok
             THEN Started([Begin("stats", c, "reply") EXCEPT !.msg = "stats"],
                          <<"send_message">>)
             ELSE Started([Begin("stats", c, "error") EXCEPT
                               !.msg = "stats_error", !.failedAt = "stats"],
                          <<"apology">>)
    /\ UNCHANGED <<subscribed_users, scheduled_quizzes, user_data, files, tick, quizRuns, db>>

\* bot.py:621-627: the statistics are delivered, or the transport raises
\* inside the try and the except clause's message is being sent.
StatsReply ==
    /\ CanResume("stats", "reply")
    /\ \E ok \in BOOLEAN :
        h' = IF ok THEN [Delivered(h, TRUE, h.msg) EXCEPT !.pc = "done"]
             ELSE Started([h EXCEPT !.pc = "error", !.msg = "stats_error",
                               !.failedAt = "send_message"],
                          <<"apology">>)
    /\ UNCHANGED <<subscribed_users, scheduled_quizzes, user_data, files, tick, quizRuns, db>>

\* bot.py:622-627: the except clause's message is delivered or raises.
StatsError ==
    /\ CanResume("stats", "error")
    /\ \E ok \in BOOLEAN :
        h' = [Delivered(h, ok, h.msg) EXCEPT !.pc = "done", !.raised = ~ok]
    /\ UNCHANGED <<subscribed_users, scheduled_quizzes, user_data, files, tick, quizRuns, db>>

\* ------------------------------------------------------------ WordDatabase
\* The arguments of add_word and remove_word: texts of one letter at most,
\* with or without padding.
WordInputs == {s \in Strings : Len(Strip(s)) <= 1}

\* The word files the object is constructed over: one word per line, no
\* word twice.
WordFiles ==
    {l \in UNION {[1..n -> WordInputs] : n \in 0..MaxWords} :
        /\ \A i \in 1..Len(l) : l[i] = Strip(l[i]) /\ l[i] # <<>>
        /\ \A i, j \in 1..Len(l) : l[i] = l[j] => i = j}

\* How a write of the word file ends: it completed, open() raised, or
\* write() raised after open() ('w' has truncated the file by then).
FileOutcomes == {"ok", "open_fails", "write_fails"}

\* word_database.py:47-48: strip, then the membership test, made before the
\* lock is taken.
AddWordCheck(t, word) ==
    /\ db.th[t].pc = "idle"
    /\ Len(db.words) < MaxWords
    /\ Len(db.file) < MaxWords
    /\ LET w == Strip(word)
           present == w \in Range(db.words)
       IN  db' = [db EXCEPT
                      !.th[t] = [IdleThread EXCEPT
                                     !.op = "add", !.word = w, !.present = present,
                                     !.pc = IF w # <<>> /\ ~present THEN "add_lock"
                                            ELSE "done",
                                     !.ret = IF w # <<>> /\ ~present THEN "none"
                                             ELSE "None"]]
    /\ UNCHANGED <<subscribed_users, scheduled_quizzes, user_data, files, tick, quizRuns, h>>

\* word_database.py:49-50: the lock is acquired and the word appended (no
\* other thread changes the list while the lock is held).
AddWordAppend(t) ==
    /\ db.th[t].pc = "add_lock"
    /\ db.lock = NoThread
    /\ db' = [db EXCEPT !.lock = t, !.words = Append(@, db.th[t].word),
                  !.th[t].pc = "add_write"]
    /\ UNCHANGED <<subscribed_users, scheduled_quizzes, user_data, files, tick, quizRuns, h>>

\* word_database.py:51-57: the append to the file completes, or it raises
\* and the word is removed from the list again; the lock is released and
\* the method returns None.
AddWordWrite(t) ==
    /\ db.th[t].pc = "add_write"
    /\ db.lock = t
    /\ \E ok \in BOOLEAN :
        db' = [db EXCEPT
                   !.file = IF ok THEN Append(@, db.th[t].word) ELSE @,
                   !.words = IF ok THEN @ ELSE RemoveFirst(@, db.th[t].word),
                   !.lock = NoThread,
                   !.th[t].pc = "done", !.th[t].ret = "None", !.th[t].wrote = ok]
    /\ UNCHANGED <<subscribed_users, scheduled_quizzes, user_data, files, tick, quizRuns, h>>

\* word_database.py:59-63, 72: the lock is acquired and the membership
\* tested; a present word is removed from the list (list.remove drops its
\* first occurrence), an absent one ends the call with False.
RemoveWord(t, word) ==
    /\ db.th[t].pc = "idle"
    /\ db.lock = NoThread
    /\ db' = IF word \in Range(db.words)
             THEN [db EXCEPT !.lock = t, !.words = RemoveFirst(@, word),
                       !.th[t] = [IdleThread EXCEPT
                                      !.pc = "remove_write", !.op = "remove",
                                      !.word = word, !.present = TRUE]]
             ELSE [db EXCEPT
                       !.th[t] = [IdleThread EXCEPT
                                      !.pc = "done", !.op = "remove", !.word = word,
                                      !.ret = "False"]]
    /\ UNCHANGED <<subscribed_users, scheduled_quizzes, user_data, files, tick, quizRuns, h>>

\* word_database.py:64-72: the file is rewritten from the list and the call
\* returns True, or the rewrite raises, the word is appended to the list
\* again and the call returns False; the lock is released.
RemoveWordWrite(t) ==
    /\ db.th[t].pc = "remove_write"
    /\ db.lock = t
    /\ \E outcome \in FileOutcomes :
        db' = [db EXCEPT
                   !.file = IF outcome = "ok" THEN db.words
                            ELSE IF outcome = "write_fails" THEN <<>> ELSE @,
                   !.words = IF outcome = "ok" THEN @ ELSE Append(@, db.th[t].word),
                   !.lock = NoThread,
                   !.th[t].pc = "done", !.th[t].wrote = (outcome = "ok"),
                   !.th[t].ret = IF outcome = "ok" THEN "True" ELSE "False"]
    /\ UNCHANGED <<subscribed_users, scheduled_quizzes, user_data, files, tick, quizRuns, h>>

\* The caller has the result.
WordDatabaseReturn(t) ==
    /\ db.th[t].pc = "done"
    /\ db' = [db EXCEPT !.th[t] = IdleThread]
    /\ UNCHANGED <<subscribed_users, scheduled_quizzes, user_data, files, tick, quizRuns, h>>

\* ------------------------------------------------------------- restart_bot
\* bot.py:788-797, the CommandHandler registered at bot.py:79, 96-97 with the
\* bare method (the decorator of bot.py:962-982 is applied nowhere): up to
\* the await of the "Restarting..." message, for any user.
RestartBot(c) ==
    /\ CanDispatch
    /\ h' = [Begin("restart_bot", c, "reply") EXCEPT !.msg = "restarting"]
    /\ UNCHANGED <<subscribed_users, scheduled_quizzes, user_data, files, tick, quizRuns, db>>

\* bot.py:797-806: the message is delivered or the transport raises; then
\* os.execv replaces the process image (bot_data, user_data and every
\* running coroutine are gone, the files stay) or raises, and the failure
\* message is being sent.
RestartReply ==
    /\ CanResume("restart_bot", "reply")
    /\ \E ok, execv \in BOOLEAN :
        IF ok /\ execv
        THEN /\ subscribed_users' = <<>>
             /\ scheduled_quizzes' = [c \in Chats |-> NoneVal]
             /\ user_data' = [c \in Chats |-> EmptyUserData]
             /\ tick' = IdleTick
             /\ quizRuns' = [c \in Chats |-> 0]
             /\ h' = IdleH
        ELSE /\ h' = IF ok
                     THEN [Delivered(h, TRUE, h.msg) EXCEPT
                               !.pc = "failed", !.msg = "restart_failed"]
                     ELSE [h EXCEPT !.pc = "done", !.raised = TRUE]
             /\ UNCHANGED <<subscribed_users, scheduled_quizzes, user_data, tick,
                            quizRuns>>
    /\ UNCHANGED <<files, db>>

\* bot.py:803-806: the "Restart failed" message is delivered or raises.
RestartFailedReply ==
    /\ CanResume("restart_bot", "failed")
    /\ \E ok \in BOOLEAN :
        h' = [Delivered(h, ok, h.msg) EXCEPT !.pc = "done", !.raised = ~ok]
    /\ UNCHANGED <<subscribed_users, scheduled_quizzes, user_data, files, tick, quizRuns, db>>

\* The dispatcher is done with the update (the handler returned or raised).
HandlerReturn ==
    /\ h.pc = "done"
    /\ tick.pc # "loop"
    /\ h' = IdleH
    /\ UNCHANGED <<subscribed_users, scheduled_quizzes, user_data, files, tick, quizRuns, db>>

Next ==
    \/ ScheduledQuizStart
    \/ ScheduledQuizIterate
    \/ ScheduledQuizEnd
    \/ \E c \in Chats : SubscribeQuiz(c)
    \/ \E c \in Chats : UnsubscribeQuiz(c)
    \/ SubscriptionReply
    \/ \E c \in Chats, text \in Texts : CheckAnswer(c, text)
    \/ CheckAnswerReply
    \/ \E c \in Chats : HandleVoice(c)
    \/ VoiceGetFile
    \/ VoiceDownload
    \/ VoiceTranscode
    \/ VoiceTranscribe
    \/ VoiceSynthesize
    \/ VoiceSendText
    \/ VoiceSendVoice
    \/ VoiceApology
    \/ \E c \in Chats : StartSpeechPractice(c)
    \/ SpeechPracticeReply
    \/ \E c \in Chats, hasWord \in BOOLEAN : Meaning(c, hasWord)
    \/ MeaningUsage
    \/ MeaningNotice
    \/ StvSendText
    \/ StvSynthesize
    \/ StvSendVoice
    \/ StvApology
    \/ \E c \in Chats, content \in QuizContents : Quiz(c, content)
    \/ QuizReply
    \/ \E c \in Chats : RestartBot(c)
    \/ RestartReply
    \/ RestartFailedReply
    \/ HandlerReturn

Spec == Init /\ [][Next]_vars

\* The program restricted to the updates of the commands /set_language,
\* /send_vocab, /stats and /restart.
NextCommands ==
    \/ \E c \in Chats, hasArg \in BOOLEAN, language \in Languages :
           SetLanguage(c, hasArg, language)
    \/ SetLanguageReply
    \/ \E c \in Chats : SendVocab(c)
    \/ VocabReply
    \/ VocabSendText
    \/ VocabSynthesize
    \/ VocabSendVoice
    \/ \E c \in Chats : Stats(c)
    \/ StatsReply
    \/ StatsError
    \/ \E c \in Chats : RestartBot(c)
    \/ RestartReply
    \/ RestartFailedReply
    \/ HandlerReturn

SpecCommands == Init /\ [][NextCommands]_vars

\* The program restricted to the updates that create audio files: voice
\* notes, /start_speech_practice (it selects the prompt of handle_voice)
\* and /meaning.
NextVoice ==
    \/ \E c \in Chats : HandleVoice(c)
    \/ VoiceGetFile
    \/ VoiceDownload
    \/ VoiceTranscode
    \/ VoiceTranscribe
    \/ VoiceSynthesize
    \/ VoiceSendText
    \/ VoiceSendVoice
    \/ VoiceApology
    \/ \E c \in Chats : StartSpeechPractice(c)
    \/ SpeechPracticeReply
    \/ \E c \in Chats, hasWord \in BOOLEAN : Meaning(c, hasWord)
    \/ MeaningUsage
    \/ MeaningNotice
    \/ StvSendText
    \/ StvSynthesize
    \/ StvSendVoice
    \/ StvApology
    \/ HandlerReturn

SpecVoice == Init /\ [][NextVoice]_vars

\* One WordDatabase called from NumThreads threads (no handler of the bot
\* calls add_word or remove_word).
InitWordDatabase ==
    /\ subscribed_users = <<>>
    /\ scheduled_quizzes = [c \in Chats |-> NoneVal]
    /\ user_data = [c \in Chats |-> EmptyUserData]
    /\ files = {}
    /\ tick = IdleTick
    /\ quizRuns = [c \in Chats |-> 0]
    /\ h = IdleH
    /\ \E lines \in WordFiles : db = WordDatabase(lines)

NextWordDatabase ==
    \/ \E t \in Threads, word \in WordInputs : AddWordCheck(t, word)
    \/ \E t \in Threads : AddWordAppend(t)
    \/ \E t \in Threads : AddWordWrite(t)
    \/ \E t \in Threads, word \in WordInputs : RemoveWord(t, word)
    \/ \E t \in Threads : RemoveWordWrite(t)
    \/ \E t \in Threads : WordDatabaseReturn(t)

SpecWordDatabase == InitWordDatabase /\ [][NextWordDatabase]_vars

\* The same object when the threads call add_word only.
NextAddWord ==
    \/ \E t \in Threads, word \in WordInputs : AddWordCheck(t, word)
    \/ \E t \in Threads : AddWordAppend(t)
    \/ \E t \in Threads : AddWordWrite(t)
    \/ \E t \in Threads : WordDatabaseReturn(t)

SpecAddWord == InitWordDatabase /\ [][NextAddWord]_vars

\* The program restricted to the updates and the job that touch the quiz
\* state and the users' settings (no audio handler is dispatched).
NextQuiz ==
    \/ ScheduledQuizStart
    \/ ScheduledQuizIterate
    \/ ScheduledQuizEnd
    \/ \E c \in Chats : SubscribeQuiz(c)
    \/ \E c \in Chats : UnsubscribeQuiz(c)
    \/ SubscriptionReply
    \/ \E c \in Chats, text \in Texts : CheckAnswer(c, text)
    \/ CheckAnswerReply
    \/ \E c \in Chats : StartSpeechPractice(c)
    \/ SpeechPracticeReply
    \/ HandlerReturn

SpecQuiz == Init /\ [][NextQuiz]_vars

\* ----------------------------------------------- check_answer as a unit
\* check_answer with context.user_data as its input: each user's
\* 'quiz_data' is absent or one quiz dict of the bounded set.
InitCheckAnswer ==
    /\ \E q \in QuizDicts, S \in SUBSET Chats :
           user_data = [c \in Chats |->
                           IF c \in S THEN [EmptyUserData EXCEPT !.quiz_data = q]
                           ELSE EmptyUserData]
    /\ subscribed_users = <<>>
    /\ scheduled_quizzes = [c \in Chats |-> NoneVal]
    /\ files = {}
    /\ tick = IdleTick
    /\ quizRuns = [c \in Chats |-> 0]
    /\ h = IdleH
    /\ db = WordDatabase(<<>>)

NextCheckAnswer ==
    \/ \E c \in Chats, text \in Texts : CheckAnswer(c, text)
    \/ CheckAnswerReply
    \/ HandlerReturn

SpecCheckAnswer == InitCheckAnswer /\ [][NextCheckAnswer]_vars

\* -------------------------------------------- the subscriber list alone
\* The handlers that write bot_data['subscribed_users'] and the job that
\* reads it.
NextSubscriptions ==
    \/ ScheduledQuizStart
    \/ ScheduledQuizIterate
    \/ ScheduledQuizEnd
    \/ \E c \in Chats : SubscribeQuiz(c)
    \/ \E c \in Chats : UnsubscribeQuiz(c)
    \/ SubscriptionReply
    \/ HandlerReturn

SpecSubscriptions == Init /\ [][NextSubscriptions]_vars

\* ------------------------------------------------- the /quiz command alone
\* The quiz handler over every completion text of the bounded set.
NextQuizCommand ==
    \/ \E c \in Chats, content \in Contents : Quiz(c, content)
    \/ QuizReply
    \/ HandlerReturn

SpecQuizCommand == Init /\ [][NextQuizCommand]_vars

\* ------------------------------------------------- cancel_quiz as a unit
\* cancel_quiz with context.user_data as its input (the handler is a
\* fallback of the conversation of bot.py:102-111, which is never entered).
NextCancelQuiz ==
    \/ \E c \in Chats : CancelQuiz(c)
    \/ CancelQuizReply
    \/ HandlerReturn

SpecCancelQuiz == InitCheckAnswer /\ [][NextCancelQuiz]_vars

\* ------------------------------------ check_answer beside the scheduler job
\* The quiz handlers and the job, from states in which users hold one given
\* quiz dict in context.user_data.
InitPending ==
    /\ \E S \in SUBSET Chats :
           user_data = [c \in Chats |->
                           IF c \in S
                           THEN [EmptyUserData EXCEPT
                                     !.quiz_data = QuizDict(<<"b">>, <<"a">>)]
                           ELSE EmptyUserData]
    /\ subscribed_users = <<>>
    /\ scheduled_quizzes = [c \in Chats |-> NoneVal]
    /\ files = {}
    /\ tick = IdleTick
    /\ quizRuns = [c \in Chats |-> 0]
    /\ h = IdleH
    /\ db = WordDatabase(<<>>)

SpecPending == InitPending /\ [][NextQuiz]_vars

\* ------------------------------------------------------------------ claims
\* The stores of quiz state that hold a pending question for recipient c.
PendingStores(c) ==
    {s \in {"user_data", "scheduled_quizzes"} :
        IF s = "user_data" THEN user_data[c].quiz_data # NoneVal
        ELSE scheduled_quizzes[c] # NoneVal}

HasPending(c) == PendingStores(c) # {}

\* s[i] = x and s[j] = y for some i < j
Before(s, x, y) == \E i, j \in 1..Len(s) : i < j /\ s[i] = x /\ s[j] = y

Finished(name) == h.name = name /\ h.pc = "done"

\* C1: with a recipient a subscribed and another recipient b not, one run of
\* scheduled_quiz in which no external step (generation, synthesis,
\* transport) fails sends exactly one voice message to a and leaves a with a
\* pending question; it sends nothing to b and b has no pending question.
C1_RunDeliversToSubscriberOnly ==
    \A a, b \in Chats :
        (a # b /\ tick.pc = "done" /\ tick.start = <<a>> /\ ~tick.extFailed) =>
            /\ Count(tick.sent, <<a, "voice">>) = 1
            /\ HasPending(a)
            /\ \A m \in Range(tick.sent) : m[1] # b
            /\ ~HasPending(b)

\* C2: at the end of a run of scheduled_quiz every subscriber of the run has
\* been attempted, in order, whatever failed for the subscribers before it.
C2_EverySubscriberAttempted ==
    /\ tick.pc = "done" => tick.attempted = tick.start
    /\ tick.pc = "loop" => tick.attempted = SubSeq(tick.start, 1, tick.idx - 1)

\* A run over two subscribers in which the first one failed and the second
\* was attempted all the same.
C2_Witness ==
    /\ tick.pc = "done"
    /\ Len(tick.start) = 2
    /\ tick.errors # <<>>
    /\ tick.errors[1] = tick.start[1]
    /\ tick.attempted[2] = tick.start[2]

\* C3: when handle_voice has returned, and no deletion failed on the way,
\* the audio directory holds the files it held when the handler was called,
\* whichever stage failed.
C3_HandleVoiceLeavesNoFile ==
    (Finished("handle_voice") /\ ~h.delFailed) => files = h.before

\* C4: the file synthesized for send_text_and_voice_response is gone once the
\* operation is over, whether send_voice succeeded or raised (no deletion
\* failing).
C4_SynthesizedFileReleased ==
    (Finished("meaning") /\ h.resp # NoFile /\ ~h.delFailed) => h.resp \notin files

\* C5: a failed deletion of a temporary audio file never makes the handler
\* send its apology after the voice message was delivered.
C5_DeletionFailureIsSilent ==
    (h.name \in {"handle_voice", "meaning"} /\ h.delFailed) =>
        ~Before(h.sent, "voice", "apology")

\* C6: a recipient has at most one pending question across the stores, and
\* after two quiz runs for a recipient the answer that follows is judged
\* against the one pending question (the second): it is reported correct or
\* not correct by comparison with that question's answer.
C6_LastQuestionWins ==
    /\ \A c \in Chats : Cardinality(PendingStores(c)) <= 1
    /\ (Finished("check_answer") /\ ~h.raised /\ h.seenRuns >= 2) =>
           /\ h.quiz_data.kind = "dict"
           /\ h.sent = IF AnswerMatches(h.text, h.quiz_data)
                       THEN <<"correct">> ELSE <<"incorrect">>

\* C7: the first text message of a recipient after a quiz run for that
\* recipient is answered with a verdict, never with the no-session reply.
C7_AnswerAfterRunIsChecked ==
    (h.name = "check_answer" /\ h.seenRuns >= 1) => h.msg \in {"correct", "incorrect"}

C9_NoSessionChangesNothing ==
    /\ [](Finished("check_answer") /\ ~Truthy(h.quiz_data) =>
              /\ h.msg = "no_session"
              /\ h.sent = IF h.raised THEN <<>> ELSE <<"no_session">>)
    /\ [][(h'.name = "check_answer" /\ h' # h /\ ~Truthy(h'.quiz_data)) =>
              UNCHANGED <<user_data, scheduled_quizzes, subscribed_users>>]_vars

\* A no-session reply delivered to a user whose settings are not the defaults.
C9_Witness ==
    /\ Finished("check_answer")
    /\ h.sent = <<"no_session">>
    /\ user_data[h.chat].in_speech_practice
    /\ subscribed_users # <<>>

\* The text between the first and the last non-space character.
Trimmed(s) ==
    LET idx == {i \in 1..Len(s) : s[i] # " "}
    IN  IF idx = {} THEN <<>>
        ELSE SubSeq(s, CHOOSE i \in idx : \A j \in idx : i <= j,
                       CHOOSE i \in idx : \A j \in idx : i >= j)

SameLetter(x, y) == x = y \/ {x, y} = {"a", "A"}

EqualIgnoringCaseAndPadding(s, t) ==
    /\ Len(Trimmed(s)) = Len(Trimmed(t))
    /\ \A i \in 1..Len(Trimmed(s)) : SameLetter(Trimmed(s)[i], Trimmed(t)[i])

\* C10: for a recipient with a pending question the verdict of check_answer
\* is "correct" exactly when the submitted text and the stored answer are
\* equal up to surrounding whitespace and letter case.
C10_VerdictIsNormalizedEquality ==
    (h.name = "check_answer" /\ Truthy(h.quiz_data)) =>
        /\ h.msg \in {"correct", "incorrect"}
        /\ h.msg = "correct" <=>
               EqualIgnoringCaseAndPadding(h.text, h.quiz_data.correct_translation)

\* A padded lower-case answer judged correct against a capitalised stored one.
C10_Witness ==
    /\ Finished("check_answer")
    /\ h.text = <<" ", "a">>
    /\ h.quiz_data.correct_translation = <<"A">>
    /\ h.sent = <<"correct">>

C12_QuizOpensQuestion ==
    (Finished("quiz") /\ Truthy(h.quiz_data)) =>
        /\ HasPending(h.chat)
        /\ user_data[h.chat].quiz_data.correct_translation
               = h.quiz_data.correct_translation
        /\ h.ret = "ANSWER"

IsPermutationOf(s, t) ==
    /\ Len(s) = Len(t)
    /\ \A x \in Range(s) \cup Range(t) : Count(s, x) = Count(t, x)

\* C13: for the five labelled lines English: X, Correct Ukrainian: Y,
\* Incorrect Ukrainian: P, Q, R the question generated has sentence X and
\* correct answer Y, labels stripped, and its options are a permutation of
\* Y, P, Q, R (four entries, Y once).
C13_LabelledLinesParsed ==
    (h.name = "quiz" /\ h.content = UkrainianContent) =>
        /\ h.quiz_data.kind = "dict"
        /\ h.quiz_data.english_sentence = <<"X">>
        /\ h.quiz_data.correct_translation = <<"Y">>
        /\ IsPermutationOf(h.quiz_data.options,
                           << <<"Y">>, <<"P">>, <<"Q">>, <<"R">> >>)

\* The number of lines of a text that are not blank.
NonEmptyLines(content) ==
    Cardinality({i \in 1..Len(content) : Strip(content[i]) # <<>>})

\* C14: a generated text with fewer than five non-empty lines, blank lines
\* not counting, gives no question (a parse failure), and the recipient has
\* no pending question.
C14_FewLinesIsParseFailure ==
    (h.name = "quiz" /\ NonEmptyLines(h.content) < 5) =>
        /\ ~Truthy(h.quiz_data)
        /\ ~HasPending(h.chat)

\* C15: no recipient occurs twice in the subscriber list; a subscribe_quiz
\* leaves exactly one entry of its recipient, and for a recipient already in
\* the list it changes nothing and reports "already subscribed".
C15_SubscribeIsIdempotent ==
    /\ [](\A c \in Chats : Count(subscribed_users, c) <= 1)
    /\ [][(h.pc = "idle" /\ h'.name = "subscribe_quiz") =>
              /\ Count(subscribed_users', h'.chat) = 1
              /\ h'.chat \in Range(subscribed_users) =>
                     (h'.msg = "already" /\ subscribed_users' = subscribed_users)]_vars

\* A second subscription reported as such, beside another subscriber.
C15_Witness ==
    /\ Finished("subscribe_quiz")
    /\ h.sent = <<"already">>
    /\ Count(subscribed_users, h.chat) = 1
    /\ Len(subscribed_users) = 2

\* C16: unsubscribe_quiz for a recipient outside the list reports "not
\* subscribed" and leaves the list as it was; for a member it reports
\* success, removes that recipient alone, and the recipient is not in the
\* list while and after the handler replies.
C16_UnsubscribeFrame ==
    /\ [][(h.pc = "idle" /\ h'.name = "unsubscribe_quiz") =>
              IF h'.chat \in Range(subscribed_users)
              THEN /\ h'.msg = "unsubscribed"
                   /\ Range(subscribed_users') = Range(subscribed_users) \ {h'.chat}
              ELSE /\ h'.msg = "not_subscribed"
                   /\ subscribed_users' = subscribed_users]_vars
    /\ [](h.name = "unsubscribe_quiz" =>
              /\ h.chat \notin Range(subscribed_users)
              /\ Range(h.sent) \subseteq {h.msg})

\* A non-member told so while the list holds somebody else.
C16_Witness ==
    /\ Finished("unsubscribe_quiz")
    /\ h.sent = <<"not_subscribed">>
    /\ subscribed_users # <<>>

\* A question held for recipient c that is not the one the running
\* check_answer read.
NewQuestionFor(c) ==
    \/ scheduled_quizzes[c] # NoneVal
    \/ user_data[c].quiz_data \notin {NoneVal, h.quiz_data}

ADMIN_ID == 1

\* C19: a /restart of a user other than the admin has no effect but the "not
\* authorized" reply: no "Restarting..." message, no os.execv.
C19_RestartNeedsAdmin ==
    (h.name = "restart_bot" /\ h.chat # ADMIN_ID) =>
        /\ h.msg = "not_authorized"
        /\ "restarting" \notin Range(h.sent)
        /\ h.pc # "failed"

\* The generation gave nothing usable: the backend failed or the text has
\* fewer than five non-empty lines.
GenerationFailed(content) ==
    content = BackendErrorContent \/ NonEmptyLines(content) < 5

\* C20: when the generation fails for /quiz, the recipient is sent the
\* apology (one message, when the transport delivers it), holds no pending
\* question, and the handler ends the conversation.
C20_GenerationFailureApologises ==
    (Finished("quiz") /\ ~h.raised /\ GenerationFailed(h.content)) =>
        /\ h.sent = <<"apology">>
        /\ ~HasPending(h.chat)
        /\ h.ret = "END"
\* C21: whenever a step of a user-triggered handler failed, the handler
\* ends only after it has tried to send the requesting chat an apology; no
\* handler ends on a failed step with an unhandled exception and no reply
\* attempted.
C21_FailureApologised ==
    (h.pc = "done" /\ h.failedAt # "none") => "apology" \in Range(h.calls)

\* The texts built from the caught exception: f"...Error: {e}" of stats
\* (bot.py:624-627) and f"Restart failed: {e}" of restart_bot
\* (bot.py:803-806).
ExceptionTextMessages == {"stats_error", "restart_failed"}

\* C22: no message delivered to a user carries the text of an exception.
C22_NoExceptionTextSent ==
    \A i \in 1..Len(h.sent) : h.sent[i] \notin ExceptionTextMessages

\* The calls that block on a backend: the pydub export
\* (speech_engine.py:103), the transcription request (speech_engine.py:66-70),
\* the completion request (openai_engine.py:35) and tts.save
\* (speech_engine.py:54).
BackendCalls == {"transcode", "transcribe", "generate", "synthesize"}

\* C23: no blocking backend call runs inline on the event loop: a step of a
\* handler that begins a backend call begins nothing after it and ends with
\* the handler suspended until the call is over.
C23_BackendCallsSuspend ==
    [][\A i \in 1..Len(h'.calls) :
          (i > Len(h.calls) /\ h'.calls[i] \in BackendCalls)
              => (i = Len(h'.calls) /\ h'.pc # "done")]_vars

\* bot.py:466-487: the steps of one handle_voice in program order.
VoiceSteps ==
    <<"download", "transcode", "transcribe", "generate", "synthesize",
      "send_message", "send_voice">>

IsPrefix(a, b) == Len(a) <= Len(b) /\ \A i \in 1..Len(a) : a[i] = b[i]

StepsBegun(rec) == SelectSeq(rec.calls, LAMBDA c : c # "apology")

\* C24: within one handle_voice the steps begin strictly in the order
\* download, transcode, transcribe, generate, synthesize, send; a step has
\* begun only if the step before it completed; and the voice reply is sent
\* only after a completed synthesis.
C24_StepsInOrder ==
    h.name = "handle_voice" =>
        LET begun == Range(StepsBegun(h))
        IN  /\ IsPrefix(StepsBegun(h), VoiceSteps)
            /\ "transcode" \in begun =>
                   h.ogg \in h.created /\ h.failedAt # "download"
            /\ "transcribe" \in begun =>
                   h.mp3 # NoFile /\ h.mp3 \in h.created /\ h.failedAt # "transcode"
            /\ "generate" \in begun => h.failedAt # "transcribe"
            /\ "send_message" \in begun =>
                   h.resp # NoFile /\ h.resp \in h.created /\ h.failedAt # "synthesize"
            /\ "send_voice" \in begun => "response" \in Range(h.sent)
            /\ "voice" \in Range(h.sent) =>
                   /\ StepsBegun(h) = VoiceSteps
                   /\ h.resp # NoFile /\ h.resp \in h.created

C24_Witness ==
    /\ h.name = "handle_voice" /\ h.pc = "done"
    /\ h.sent = <<"response", "voice">>
    /\ h.calls = VoiceSteps

\* C25: when a handle_voice ends, on success or on an error, every temporary
\* audio file created during it has been removed exactly once (provided no
\* unlink itself failed): none is unlinked twice and none is left behind.
C25_TempFilesRemovedOnce ==
    (Finished("handle_voice") /\ ~h.delFailed) =>
        \A f \in h.created : Count(h.unlinks, f) = 1 /\ f \notin files

\* C28: when the download, the transcoding or the transcription of a
\* handle_voice failed, the handler begins no text generation, no synthesis
\* and no send of a reply or a voice; it makes exactly one send of the
\* apology, and when it ends the chat has received that one apology and
\* nothing else (nothing at all if the transport raised on it).
C28_EarlyFailureOnlyApologises ==
    (h.name = "handle_voice" /\ h.failedAt \in {"download", "transcode", "transcribe"}) =>
        /\ Range(h.calls) \cap {"generate", "synthesize", "send_message", "send_voice"} = {}
        /\ Count(h.calls, "apology") = 1
        /\ h.pc \in {"apology", "done"}
        /\ h.pc = "apology" => h.sent = <<>>
        /\ h.pc = "done" => h.sent = IF h.raised THEN <<>> ELSE <<"apology">>

C28_Witness ==
    /\ Finished("handle_voice")
    /\ h.failedAt = "transcribe"
    /\ h.calls = <<"download", "transcode", "transcribe", "apology">>
    /\ h.sent = <<"apology">>

\* C26: a call of remove_word returns True exactly when the word was present
\* and the rewrite of the file succeeded, and then the word is in neither
\* the list nor the file; when the rewrite failed it returns False and the
\* word is a member of the list; when the word was absent it returns False
\* and changes neither the list nor the file.
C26_RemoveWordContract ==
    [][\A t \in Threads :
          (db.th[t].pc # "done" /\ db'.th[t].pc = "done" /\ db'.th[t].op = "remove") =>
              LET r == db'.th[t]
              IN  /\ r.ret = "True" <=> (r.present /\ r.wrote)
                  /\ r.ret = "True" =>
                         r.word \notin Range(db'.words) /\ r.word \notin Range(db'.file)
                  /\ (r.present /\ ~r.wrote) =>
                         r.ret = "False" /\ r.word \in Range(db'.words)
                  /\ ~r.present =>
                         r.ret = "False" /\ db'.words = db.words /\ db'.file = db.file]_vars

\* No thread is inside a call of the WordDatabase.
Quiescent == \A t \in Threads : db.th[t].pc \in {"idle", "done"}

\* C30: after any interleaving of add_word calls from different threads the
\* list holds no word twice, and every word of the list is a line of the
\* file.
C30_AddWordKeepsListASet ==
    Quiescent =>
        \A i \in 1..Len(db.words) :
            /\ Count(db.words, db.words[i]) = 1
            /\ db.words[i] \in Range(LoadWords(db.file))

====
